---- MODULE Spec2Model ----
(***************************************************************************)
(* Access arbitration of streamlit_app.py: the queue file, the lock file   *)
(* and the per-session script run of main().                               *)
(*                                                                         *)
(* Every browser session runs main() top to bottom on each interaction     *)
(* (Streamlit's execution model); several sessions run concurrently, so    *)
(* the steps that touch QUEUE_FILE and LOCK_FILE interleave.  Each file    *)
(* access (one load, one save, one exists-check, one remove, one write) is *)
(* one step; what a run does to its own st.session_state is private and is *)
(* folded into the step that precedes it.                                  *)
(***************************************************************************)
EXTENDS Integers, Sequences, FiniteSets, TLC

\* ---------------------------------------------------------------- bounds
NumSessions == 2      \* browser sessions that may visit the app
MaxIds == 3           \* uuid4 values drawn in one run of the model
MaxTicks == 2         \* clock advances in one run of the model
NumCallers == 2       \* processes calling acquire_lock / release_lock
MaxCalls == 5         \* calls made by the sequential queue client
MaxClientIds == 4     \* ids the sequential queue client may enqueue
NumStageSessions == 1 \* sessions that send requests in any order

\* ------------------------------------------------------- program constants
LOCK_TIMEOUT == 300
MaxFiles == 10

NoUser == 0           \* None as a user id (dequeue_user / get_current_user)
NoLock == -1          \* LOCK_FILE does not exist
EmptyLock == -2       \* LOCK_FILE exists and is empty (opened "w", not yet written)
NoText == 0           \* st.session_state.extracted_text is None

Sessions == 1..NumSessions
Callers == 1..NumCallers

Range(f) == {f[i] : i \in DOMAIN f}

VARIABLES
  queue,              \* contents of QUEUE_FILE (a missing file loads as [])
  lock,               \* contents of LOCK_FILE: NoLock, EmptyLock or the time written
  now,                \* datetime.now()
  ticks,              \* number of clock advances so far
  next_id,            \* the next uuid4 value
  \* --- one script run of main() per session
  pc,                 \* where the session's current run stands
  state,              \* how the session's last run ended at the gate
  ev,                 \* the widget event that triggered the current run
  user_id,            \* st.session_state.user_id (NoUser: key absent)
  q,                  \* the local `queue` of enqueue_user / dequeue_user
  uploaded,           \* number of files held by the file_uploader widget
  extracted_text,     \* NoText, or the number of images extracted
  file_path,          \* st.session_state.file_path is set
  download_complete,  \* st.session_state.download_complete
  last_run,           \* time the session's last run started
  \* --- direct callers of acquire_lock / release_lock
  lpc,                \* where the caller's current call stands
  lock_time,          \* the local lock_time of acquire_lock
  result,             \* what the caller's last call returned
  granted,            \* time of the caller's last True, NoLock once released
  \* --- a sequential client of enqueue_user / dequeue_user
  enqueued,           \* the ids it enqueued, in call order
  returned            \* what its dequeue_user calls returned, in call order

fileVars == <<queue, lock>>
clockVars == <<now, ticks>>
sessVars == <<next_id, pc, state, ev, user_id, q, uploaded, extracted_text,
              file_path, download_complete, last_run>>
lockVars == <<lpc, lock_time, result, granted>>
clientVars == <<enqueued, returned>>
vars == <<fileVars, clockVars, sessVars, lockVars, clientVars>>

\* ------------------------------------------------------------ queue file
\* A plausible slip: the membership test of line 37 left out.
NotInQueue_unchecked(qu, u) == TRUE

\* line 37: `user_id not in queue`
NotInQueue(qu, u) == u \notin Range(qu)

\* line 38: queue.append(user_id)
QueueAppend(qu, u) == Append(qu, u)

\* A plausible slip: queue.pop() for queue.pop(0), taking the last element.
PopValue_last(qu) == qu[Len(qu)]

\* line 45: queue.pop(0) returns the first element ...
PopValue(qu) == Head(qu)

\* ... and leaves the rest
PopRest(qu) == Tail(qu)

\* A plausible slip: queue[-1] for queue[0], the last in the queue.
get_current_user_last(qu) == IF qu # <<>> THEN qu[Len(qu)] ELSE NoUser

\* lines 50-53
get_current_user(qu) == IF qu # <<>> THEN qu[1] ELSE NoUser

\* A plausible slip: the expiry test made inclusive.
Expired_inclusive(t, lt) == t >= lt + LOCK_TIMEOUT

\* ------------------------------------------------------------- lock file
\* line 61: datetime.now() > lock_time + timedelta(seconds=LOCK_TIMEOUT)
Expired(t, lt) == t > lt + LOCK_TIMEOUT

\* ------------------------------------------------------------------ Init
Init ==
  /\ queue = <<>>
  /\ lock = NoLock
  /\ now = 0
  /\ ticks = 0
  /\ next_id = 1
  /\ pc = [s \in Sessions |-> "idle"]
  /\ state = [s \in Sessions |-> "AwaitingTurn"]
  /\ ev = [s \in Sessions |-> "rerun"]
  /\ user_id = [s \in Sessions |-> NoUser]
  /\ q = [s \in Sessions |-> <<>>]
  /\ uploaded = [s \in Sessions |-> 0]
  /\ extracted_text = [s \in Sessions |-> NoText]
  /\ file_path = [s \in Sessions |-> FALSE]
  /\ download_complete = [s \in Sessions |-> FALSE]
  /\ last_run = [s \in Sessions |-> 0]
  /\ lpc = [c \in Callers |-> "idle"]
  /\ lock_time = [c \in Callers |-> NoLock]
  /\ result = [c \in Callers |-> "none"]
  /\ granted = [c \in Callers |-> NoLock]
  /\ enqueued = <<>>
  /\ returned = <<>>

\* ------------------------------------------------- main(): one script run
\* The numbers of files a user may put into the file_uploader widget.
FileCounts == {1, MaxFiles + 1}

\* The widgets the session's last run drew, hence the events it can send.
DrewApp(s) == state[s] \in {"Active", "Terminated"}
DrewUploader(s) == DrewApp(s) /\ ~download_complete[s]
DrewGenerate(s) == DrewUploader(s) /\ extracted_text[s] # NoText
DrewDownload(s) == DrewGenerate(s) /\ file_path[s]
DrewPrompt(s) == DrewApp(s) /\ download_complete[s]

Events(s) ==
  {"rerun"}
    \cup (IF DrewUploader(s) THEN {"upload"} ELSE {})
    \cup (IF DrewGenerate(s) THEN {"generate"} ELSE {})
    \cup (IF DrewDownload(s) THEN {"download"} ELSE {})
    \cup (IF DrewPrompt(s) THEN {"reset", "exit"} ELSE {})

\* uuid4 values the runs under way will still draw (a reset draws one).
IdsReserved == Cardinality({t \in Sessions : pc[t] # "idle" /\ ev[t] = "reset"})

\* lines 148-154 and line 36: a run starts on a widget event; a session
\* without user_id draws a uuid4; enqueue_user loads the queue file.
main_start(s) ==
  /\ pc[s] = "idle"
  /\ user_id[s] = NoUser => \A t \in 1..(s - 1) : user_id[t] # NoUser
  /\ \E e \in Events(s), n \in FileCounts :
       /\ (e = "reset" \/ user_id[s] = NoUser)
            => next_id + IdsReserved <= MaxIds
       /\ e # "upload" => n = 1
       /\ ev' = [ev EXCEPT ![s] = e]
       /\ uploaded' = [uploaded EXCEPT ![s] = IF e = "upload" THEN n ELSE @]
  /\ IF user_id[s] = NoUser
       THEN /\ user_id' = [user_id EXCEPT ![s] = next_id]
            /\ next_id' = next_id + 1
       ELSE UNCHANGED <<user_id, next_id>>
  /\ last_run' = [last_run EXCEPT ![s] = now]
  /\ q' = [q EXCEPT ![s] = queue]
  /\ pc' = [pc EXCEPT ![s] = "enq_save"]
  /\ UNCHANGED <<fileVars, clockVars, state, extracted_text, file_path,
                 download_complete, lockVars, clientVars>>

\* lines 37-39 (enqueue_user called from line 154 and from line 225):
\* append and save, only when the id is not in the loaded list
enqueue_user_save(s) ==
  /\ pc[s] \in {"enq_save", "x_enq_save"}
  /\ IF NotInQueue(q[s], user_id[s])
       THEN queue' = QueueAppend(q[s], user_id[s])
       ELSE UNCHANGED queue
  /\ q' = [q EXCEPT ![s] = <<>>]
  /\ pc' = [pc EXCEPT ![s] = IF @ = "enq_save" THEN "gate" ELSE "x_deq_load"]
  /\ UNCHANGED <<lock, clockVars, next_id, state, ev, user_id, uploaded,
                 extracted_text, file_path, download_complete, last_run,
                 lockVars, clientVars>>

\* A plausible slip: the test of line 182 left out.
Extracted_unbounded(s) ==
  IF uploaded[s] > 0 /\ extracted_text[s] = NoText
    THEN uploaded[s]
    ELSE extracted_text[s]

\* A plausible slip: the test of line 180 left out.
Extracted_again(s) ==
  IF uploaded[s] > 0 /\ ~(uploaded[s] > MaxFiles)
    THEN uploaded[s]
    ELSE extracted_text[s]

\* lines 179-186: extraction runs when files are present, no text has been
\* extracted yet and there are at most 10 files.
Extracted(s) ==
  IF uploaded[s] > 0 /\ extracted_text[s] = NoText /\ ~(uploaded[s] > MaxFiles)
    THEN uploaded[s]
    ELSE extracted_text[s]

\* A plausible slip: the button of line 193 evaluated outside the test of
\* line 188.
Generated_unchecked(s) == IF ev[s] = "generate" THEN TRUE ELSE file_path[s]

\* lines 193-200: the Generate button is drawn once there is text
Generated(s) ==
  IF Extracted(s) # NoText /\ ev[s] = "generate" THEN TRUE ELSE file_path[s]

\* lines 203-213: the download button is drawn once there is a file
Downloaded(s) == Extracted(s) # NoText /\ Generated(s) /\ ev[s] = "download"

\* lines 76-80 as main() runs them: main() never writes LOCK_FILE, so
\* release_lock() is an exists-check that finds nothing.
release_lock_main == lock' = NoLock

\* lines 156-224: the gate, then the app.  The gate loads the queue file
\* (get_current_user); a run that is not at the front stops.  Past the gate
\* the run works on its own session state, up to release_lock() included.
\* A widget a run does not draw loses its value (Streamlit), so the
\* uploader is empty after a run that stopped at the gate or drew the prompt.
main_gate(s) ==
  /\ pc[s] = "gate"
  /\ IF user_id[s] # get_current_user(queue)
       THEN \* lines 157-159: st.warning, st.stop
            /\ state' = [state EXCEPT ![s] = "AwaitingTurn"]
            /\ pc' = [pc EXCEPT ![s] = "idle"]
            /\ ev' = [ev EXCEPT ![s] = "rerun"]
            /\ uploaded' = [uploaded EXCEPT ![s] = 0]
            /\ UNCHANGED <<lock, extracted_text, file_path, download_complete>>
       ELSE /\ state' = [state EXCEPT ![s] = "Active"]
            /\ IF ~download_complete[s]
                 THEN \* lines 174-214
                      /\ extracted_text' = [extracted_text EXCEPT ![s] = Extracted(s)]
                      /\ file_path' = [file_path EXCEPT ![s] = Generated(s)]
                      /\ download_complete' =
                           [download_complete EXCEPT ![s] = Downloaded(s)]
                      \* line 214: st.experimental_rerun()
                      /\ pc' = [pc EXCEPT ![s] =
                                  IF Downloaded(s) THEN "rerun" ELSE "idle"]
                      /\ ev' = [ev EXCEPT ![s] = "rerun"]
                      /\ UNCHANGED <<lock, uploaded>>
                 ELSE \* lines 215-224
                      /\ pc' = [pc EXCEPT ![s] =
                                  CASE ev[s] = "reset" -> "reset"
                                    [] ev[s] = "exit" -> "x_enq_load"
                                    [] OTHER -> "idle"]
                      /\ IF ev[s] = "exit"
                           THEN release_lock_main
                           ELSE UNCHANGED lock
                      /\ ev' = [ev EXCEPT ![s] = IF @ = "reset" THEN @ ELSE "rerun"]
                      /\ uploaded' = [uploaded EXCEPT ![s] = 0]
                      /\ UNCHANGED <<extracted_text, file_path, download_complete>>
  /\ UNCHANGED <<queue, clockVars, next_id, user_id, q, last_run, lockVars,
                 clientVars>>

\* line 36, in the run st.experimental_rerun() started (line 214) and in
\* enqueue_user on the exit path (line 225): queue = load_queue()
enqueue_user_load(s) ==
  /\ pc[s] \in {"rerun", "x_enq_load"}
  /\ q' = [q EXCEPT ![s] = queue]
  /\ pc' = [pc EXCEPT ![s] = IF @ = "rerun" THEN "enq_save" ELSE "x_enq_save"]
  /\ UNCHANGED <<fileVars, clockVars, next_id, state, ev, user_id, uploaded,
                 extracted_text, file_path, download_complete, last_run,
                 lockVars, clientVars>>

\* lines 141-146, then lines 149-154 and 36 of the run it starts:
\* release_lock(), every key of the session state deleted (user_id too);
\* the new run draws a new uuid4 and enqueue_user loads the queue file.
reset_session(s) ==
  /\ pc[s] = "reset"
  /\ release_lock_main
  /\ user_id' = [user_id EXCEPT ![s] = next_id]
  /\ next_id' = next_id + 1
  /\ extracted_text' = [extracted_text EXCEPT ![s] = NoText]
  /\ file_path' = [file_path EXCEPT ![s] = FALSE]
  /\ download_complete' = [download_complete EXCEPT ![s] = FALSE]
  /\ state' = [state EXCEPT ![s] = "AwaitingTurn"]
  /\ ev' = [ev EXCEPT ![s] = "rerun"]
  /\ last_run' = [last_run EXCEPT ![s] = now]
  /\ q' = [q EXCEPT ![s] = queue]
  /\ pc' = [pc EXCEPT ![s] = "enq_save"]
  /\ UNCHANGED <<queue, clockVars, uploaded, lockVars, clientVars>>

\* line 43 (dequeue_user called from line 226): queue = load_queue()
dequeue_user_load(s) ==
  /\ pc[s] = "x_deq_load"
  /\ q' = [q EXCEPT ![s] = queue]
  /\ pc' = [pc EXCEPT ![s] = "x_deq_save"]
  /\ UNCHANGED <<fileVars, clockVars, next_id, state, ev, user_id, uploaded,
                 extracted_text, file_path, download_complete, last_run,
                 lockVars, clientVars>>

\* lines 44-48, then line 227: pop the first element and save; st.stop()
dequeue_user_save(s) ==
  /\ pc[s] = "x_deq_save"
  /\ IF q[s] # <<>>
       THEN queue' = PopRest(q[s])
       ELSE UNCHANGED queue
  /\ q' = [q EXCEPT ![s] = <<>>]
  /\ state' = [state EXCEPT ![s] = "Terminated"]
  /\ pc' = [pc EXCEPT ![s] = "idle"]
  /\ UNCHANGED <<lock, clockVars, next_id, ev, user_id, uploaded,
                 extracted_text, file_path, download_complete, last_run,
                 lockVars, clientVars>>

Next ==
  \E s \in Sessions :
    \/ main_start(s)
    \/ enqueue_user_save(s)
    \/ main_gate(s)
    \/ enqueue_user_load(s)
    \/ reset_session(s)
    \/ dequeue_user_load(s)
    \/ dequeue_user_save(s)

Spec == Init /\ [][Next]_vars

\* ------------------------------------------- main() under any request
\* The browser keeps the widgets of the last run it was sent until the
\* next run has drawn its own, and the uploader takes any number of files:
\* every widget event can reach a run, in or out of stage order.
AllEvents == {"rerun", "upload", "generate", "download", "reset", "exit"}
RequestCounts == {1, MaxFiles, MaxFiles + 1}

\* lines 148-154 and line 36, as main_start, on any event
main_request(s) ==
  /\ pc[s] = "idle"
  /\ user_id[s] = NoUser => \A t \in 1..(s - 1) : user_id[t] # NoUser
  /\ \E e \in AllEvents, n \in RequestCounts :
       /\ (e = "reset" \/ user_id[s] = NoUser)
            => next_id + IdsReserved <= MaxIds
       /\ e # "upload" => n = 1
       /\ ev' = [ev EXCEPT ![s] = e]
       /\ uploaded' = [uploaded EXCEPT ![s] = IF e = "upload" THEN n ELSE @]
  /\ IF user_id[s] = NoUser
       THEN /\ user_id' = [user_id EXCEPT ![s] = next_id]
            /\ next_id' = next_id + 1
       ELSE UNCHANGED <<user_id, next_id>>
  /\ last_run' = [last_run EXCEPT ![s] = now]
  /\ q' = [q EXCEPT ![s] = queue]
  /\ pc' = [pc EXCEPT ![s] = "enq_save"]
  /\ UNCHANGED <<fileVars, clockVars, state, extracted_text, file_path,
                 download_complete, lockVars, clientVars>>

StageSessions == 1..NumStageSessions

NextStages ==
  \E s \in StageSessions :
    \/ main_request(s)
    \/ enqueue_user_save(s)
    \/ main_gate(s)
    \/ enqueue_user_load(s)
    \/ reset_session(s)
    \/ dequeue_user_load(s)
    \/ dequeue_user_save(s)

SpecStages == Init /\ [][NextStages]_vars

\* ----------------------------------------------------------------- clock
\* Time passes between any two steps: by one second, or by LOCK_TIMEOUT.
TickSteps == {1, LOCK_TIMEOUT}

Tick ==
  /\ ticks < MaxTicks
  /\ \E d \in TickSteps : now' = now + d
  /\ ticks' = ticks + 1
  /\ UNCHANGED <<fileVars, sessVars, lockVars, clientVars>>

NextIdle == Next \/ Tick

\* main() with the clock running
SpecIdle == Init /\ [][NextIdle]_vars

\* ======================================================= claims on main()
Active(s) == state[s] = "Active"
Quiet == \A s \in Sessions : pc[s] = "idle"

\* C1: at most one participant at a time is past the front-of-queue gate
\* (Active), whatever the interleaving of the load and save steps.
C1_OneActive == Cardinality({s \in Sessions : Active(s)}) <= 1

\* C3: once the participant with the turn has been idle for longer than
\* LOCK_TIMEOUT, a poll by the next waiting participant proceeds: no poll
\* started after the timeout ends waiting behind the idle participant.
C3_IdleTurnReclaimed ==
  \A a, w \in Sessions :
    ~ /\ a # w
      /\ Active(a) /\ pc[a] = "idle"
      /\ queue = <<user_id[a], user_id[w]>>
      /\ last_run[w] > last_run[a] + LOCK_TIMEOUT
      /\ pc[w] = "idle" /\ state[w] = "AwaitingTurn"

\* C4: after a reset the participant is queued once, at the tail, and the
\* first waiter is at the front: whenever no run is under way, the queue
\* holds no id that reset_session deleted from its session.
C4_ResetRequeuesAtTail ==
  Quiet => \A i \in Range(queue) : \E s \in Sessions : user_id[s] = i

\* C5: when the participant with the turn exits, it is no longer in the
\* queue afterwards and the participant that was second becomes the front.
C5_ExitHandsOver ==
  [][\A s \in Sessions :
       (pc[s] = "x_deq_save" /\ pc'[s] = "idle")
         => /\ NotInQueue(queue', user_id[s])
            /\ Len(queue) >= 2 => get_current_user(queue') = queue[2]]_vars

\* C10: no id is ever in the queue twice, and an enqueue_user call that
\* finds its id in the queue leaves the queue file as it is.
NoDuplicates(qu) == \A i, j \in DOMAIN qu : qu[i] = qu[j] => i = j

C10_EnqueueIdempotent ==
  /\ [](NoDuplicates(queue))
  /\ [][\A s \in Sessions :
          (pc[s] \in {"enq_save", "x_enq_save"} /\ pc'[s] # pc[s]
             /\ user_id[s] \in Range(q[s]))
            => queue' = queue]_vars

\* C10 witness: a rerun of a queued participant has called enqueue_user
\* again, found its id and gone on to the gate with the queue unchanged.
C10_Witness ==
  \E s \in Sessions :
    /\ pc[s] = "gate"
    /\ state[s] = "Active"
    /\ Len(queue) = NumSessions
    /\ user_id[s] \in Range(queue)

Waiting(s) == user_id[s] # NoUser /\ state[s] = "AwaitingTurn"

C15_QueueCallsAtomic ==
  \A s \in Sessions :
    /\ pc[s] = "gate" => user_id[s] \in Range(queue)
    /\ (pc[s] = "idle" /\ state[s] = "Terminated")
         => NotInQueue(queue, user_id[s])

\* C16: a participant that is past the gate holds a valid, unexpired lock.
C16_ActiveHoldsLock ==
  \A s \in Sessions :
    Active(s) => (lock \notin {NoLock, EmptyLock} /\ ~Expired(now, lock))

\* C18: the id at the front of the queue belongs to a session that still
\* polls under that id, so some participant can proceed.
C18_FrontIsLive ==
  queue # <<>> => \E s \in Sessions : user_id[s] = queue[1]

\* C19: the dequeue_user call of the exit path takes the exiting
\* participant's own id out of the queue file and no other id.
C19_ExitRemovesOnlyCaller ==
  [][\A s \in Sessions :
       (pc[s] = "x_deq_save" /\ pc'[s] = "idle")
         => Range(queue) \ Range(queue') \subseteq {user_id[s]}]_vars

\* ================================================== claims on the stages
\* The step is session s's run passing or stopping at the gate.
GateStep(s) == pc[s] = "gate" /\ pc'[s] # "gate"

\* The run has text to work on: extracted before, or extractable now.
HasText(s) == extracted_text[s] # NoText \/ uploaded[s] \in 1..MaxFiles

\* The event of the run is not a transition of its session's stage.
OutOfOrder(s) ==
  \/ ev[s] = "upload" /\ download_complete[s]
  \/ ev[s] = "generate" /\ (download_complete[s] \/ ~HasText(s))
  \/ ev[s] = "download"
       /\ (download_complete[s] \/ ~HasText(s) \/ ~file_path[s])
  \/ ev[s] \in {"reset", "exit"} /\ ~download_complete[s]

SessionKept(s) ==
  /\ extracted_text'[s] = extracted_text[s]
  /\ file_path'[s] = file_path[s]
  /\ download_complete'[s] = download_complete[s]
  /\ user_id'[s] = user_id[s]

\* C12: a file exists only once text has been extracted, the download is
\* complete only once a file exists, and a run whose event is out of stage
\* order leaves the session state, the queue and the lock as they are.
C12_StageOrder ==
  /\ [](\A s \in Sessions :
          /\ file_path[s] => extracted_text[s] # NoText
          /\ download_complete[s] => file_path[s])
  /\ [][\A s \in Sessions :
          (GateStep(s) /\ OutOfOrder(s))
            => /\ SessionKept(s)
               /\ pc'[s] = "idle"
               /\ queue' = queue /\ lock' = lock]_vars

\* C12 witness: a generate request reached a run that is past the gate
\* and has no text, and a session has completed the stages in order.
C12_Witness ==
  \E s \in Sessions :
    /\ pc[s] = "gate"
    /\ ev[s] = "generate"
    /\ user_id[s] = get_current_user(queue)
    /\ ~HasText(s)

\* C13: a run that finds more than 10 files extracts nothing and changes
\* neither its session state nor the queue nor the lock; text is
\* extracted only from 1 to 10 files.
C13_UploadGuard ==
  /\ [][\A s \in Sessions :
          (GateStep(s) /\ uploaded[s] > MaxFiles /\ extracted_text[s] = NoText)
            => /\ SessionKept(s)
               /\ queue' = queue /\ lock' = lock]_vars
  /\ [][\A s \in Sessions :
          (extracted_text[s] = NoText /\ extracted_text'[s] # NoText)
            => /\ uploaded[s] \in 1..MaxFiles
               /\ extracted_text'[s] = uploaded[s]]_vars

\* C13 witness: a run past the gate found 11 files and left the session
\* awaiting its upload.
C13_Witness ==
  \E s \in Sessions :
    /\ pc[s] = "idle" /\ Active(s)
    /\ uploaded[s] = MaxFiles + 1
    /\ extracted_text[s] = NoText
    /\ ~download_complete[s]

\* C17: once text has been extracted it stays as it is, whatever is
\* uploaded or rerun, until reset_session deletes it.
C17_ExtractOnce ==
  [][\A s \in Sessions :
       extracted_text[s] # NoText
         => \/ extracted_text'[s] = extracted_text[s]
            \/ pc[s] = "reset" /\ extracted_text'[s] = NoText]_vars

\* C17 witness: files were uploaded again after the extraction and the
\* run past the gate kept the text of the first upload.
C17_Witness ==
  \E s \in Sessions :
    /\ pc[s] = "idle" /\ Active(s)
    /\ extracted_text[s] # NoText
    /\ uploaded[s] \in 1..MaxFiles
    /\ uploaded[s] # extracted_text[s]

\* ================================== acquire_lock / release_lock, called
\* directly by concurrent processes, one file access per step
\* line 58: os.path.exists(LOCK_FILE)
acquire_lock_exists(c) ==
  /\ lpc[c] = "idle"
  /\ lpc' = [lpc EXCEPT ![c] = IF lock # NoLock THEN "a_read" ELSE "a_write"]
  /\ result' = [result EXCEPT ![c] = "none"]
  /\ lock_time' = [lock_time EXCEPT ![c] = NoLock]
  /\ UNCHANGED <<fileVars, clockVars, sessVars, granted, clientVars>>

\* lines 59-60: open and read; a file removed meanwhile raises on open,
\* an empty file raises in datetime.fromisoformat, and the exception is
\* logged and raised again (lines 72-74)
acquire_lock_read(c) ==
  /\ lpc[c] = "a_read"
  /\ IF lock \in {NoLock, EmptyLock}
       THEN /\ lpc' = [lpc EXCEPT ![c] = "idle"]
            /\ result' = [result EXCEPT ![c] = "raise"]
            /\ UNCHANGED lock_time
       ELSE /\ lpc' = [lpc EXCEPT ![c] = "a_cmp"]
            /\ lock_time' = [lock_time EXCEPT ![c] = lock]
            /\ UNCHANGED result
  /\ UNCHANGED <<fileVars, clockVars, sessVars, granted, clientVars>>

\* lines 61-67: the expiry comparison; an unexpired lock returns False
acquire_lock_compare(c) ==
  /\ lpc[c] = "a_cmp"
  /\ IF Expired(now, lock_time[c])
       THEN /\ lpc' = [lpc EXCEPT ![c] = "a_rm"]
            /\ UNCHANGED result
       ELSE /\ lpc' = [lpc EXCEPT ![c] = "idle"]
            /\ result' = [result EXCEPT ![c] = "False"]
  /\ UNCHANGED <<fileVars, clockVars, sessVars, lock_time, granted, clientVars>>

\* line 63: os.remove(LOCK_FILE); raises when the file is gone
acquire_lock_remove(c) ==
  /\ lpc[c] = "a_rm"
  /\ IF lock = NoLock
       THEN /\ lpc' = [lpc EXCEPT ![c] = "idle"]
            /\ result' = [result EXCEPT ![c] = "raise"]
            /\ UNCHANGED lock
       ELSE /\ lpc' = [lpc EXCEPT ![c] = "a_write"]
            /\ lock' = NoLock
            /\ UNCHANGED result
  /\ UNCHANGED <<queue, clockVars, sessVars, lock_time, granted, clientVars>>

\* line 68: open(LOCK_FILE, "w") creates the file or empties it
acquire_lock_open(c) ==
  /\ lpc[c] = "a_write"
  /\ lock' = EmptyLock
  /\ lpc' = [lpc EXCEPT ![c] = "a_dump"]
  /\ UNCHANGED <<queue, clockVars, sessVars, lock_time, result, granted,
                 clientVars>>

\* lines 69-71: write datetime.now() and return True
acquire_lock_write(c) ==
  /\ lpc[c] = "a_dump"
  /\ lock' = now
  /\ result' = [result EXCEPT ![c] = "True"]
  /\ granted' = [granted EXCEPT ![c] = now]
  /\ lpc' = [lpc EXCEPT ![c] = "idle"]
  /\ UNCHANGED <<queue, clockVars, sessVars, lock_time, clientVars>>

\* line 79: os.path.exists(LOCK_FILE); nothing to do when there is no file
release_lock_exists(c) ==
  /\ lpc[c] = "idle"
  /\ IF lock # NoLock
       THEN /\ lpc' = [lpc EXCEPT ![c] = "r_rm"]
            /\ UNCHANGED granted
       ELSE /\ granted' = [granted EXCEPT ![c] = NoLock]
            /\ UNCHANGED lpc
  /\ UNCHANGED <<fileVars, clockVars, sessVars, lock_time, result, clientVars>>

\* line 80: os.remove(LOCK_FILE), whoever wrote it; raises when it is gone
release_lock_remove(c) ==
  /\ lpc[c] = "r_rm"
  /\ lock' = NoLock
  /\ granted' = [granted EXCEPT ![c] = NoLock]
  /\ lpc' = [lpc EXCEPT ![c] = "idle"]
  /\ UNCHANGED <<queue, clockVars, sessVars, lock_time, result, clientVars>>

NextLock ==
  \/ \E c \in Callers :
       \/ acquire_lock_exists(c)
       \/ acquire_lock_read(c)
       \/ acquire_lock_compare(c)
       \/ acquire_lock_remove(c)
       \/ acquire_lock_open(c)
       \/ acquire_lock_write(c)
       \/ release_lock_exists(c)
       \/ release_lock_remove(c)
  \/ Tick

SpecLock == Init /\ [][NextLock]_vars

\* ================================================ claims on the lock file
\* The caller believes it holds the lock: its last acquire_lock returned
\* True, it has not released since, and that grant has not expired.
Live(c) == granted[c] # NoLock /\ ~Expired(now, granted[c])

\* The lock file is the one c wrote, and c alone.
Holds(c) ==
  /\ granted[c] # NoLock
  /\ lock = granted[c]
  /\ \A d \in Callers \ {c} : granted[d] # lock

\* C2: no two participants hold a live grant at the same time.
C2_OneGrant == \A c, d \in Callers : (Live(c) /\ Live(d)) => c = d

C7_ReleaseOnlyByHolder ==
  [][\A c \in Callers :
       (lpc[c] = "r_rm" /\ lpc'[c] = "idle"
          /\ \E d \in Callers \ {c} : Holds(d) /\ Live(d))
         => lock' = lock]_vars

\* C14: acquire_lock on an unreadable lock file (here: empty, between
\* another call's open and write) reports a denial, False, and leaves the
\* lock file as it is.
C14_FailsClosed ==
  [][\A c \in Callers :
       (lpc[c] = "a_read" /\ lpc'[c] # "a_read" /\ lock = EmptyLock)
         => result'[c] = "False" /\ lock' = lock]_vars

\* C8: the holder of the unexpired lock is never denied by its own lock.
C8_HolderRenews ==
  \A c \in Callers : (Holds(c) /\ Live(c)) => result[c] # "False"

\* ============================ enqueue_user / dequeue_user, called one
\* after the other by a single client: first enqueue_user with distinct
\* ids, then dequeue_user
ClientIds == 1..MaxClientIds
CallsMade == Len(enqueued) + Len(returned)

\* lines 34-39, the whole call
enqueue_user(u) ==
  /\ returned = <<>>
  /\ CallsMade < MaxCalls
  /\ u \notin Range(enqueued)
  /\ queue' = IF NotInQueue(queue, u) THEN QueueAppend(queue, u) ELSE queue
  /\ enqueued' = Append(enqueued, u)
  /\ UNCHANGED <<lock, clockVars, sessVars, lockVars, returned>>

\* lines 41-48, the whole call
dequeue_user ==
  /\ CallsMade < MaxCalls
  /\ IF queue # <<>>
       THEN /\ returned' = Append(returned, PopValue(queue))
            /\ queue' = PopRest(queue)
       ELSE /\ returned' = Append(returned, NoUser)
            /\ UNCHANGED queue
  /\ UNCHANGED <<lock, clockVars, sessVars, lockVars, enqueued>>

NextQueue ==
  \/ \E u \in ClientIds : enqueue_user(u)
  \/ dequeue_user

SpecQueue == Init /\ [][NextQueue]_vars

\* C9: dequeue_user returns the ids in the order enqueue_user was called
\* with them, and None once the queue is empty.
C9_Fifo ==
  \A i \in DOMAIN returned :
    returned[i] = IF i <= Len(enqueued) THEN enqueued[i] ELSE NoUser

\* C9 witness: several ids were enqueued, all were dequeued, and one more
\* dequeue_user call found the queue empty.
C9_Witness ==
  /\ Len(enqueued) >= 2
  /\ Len(returned) > Len(enqueued)
  /\ queue = <<>>

====
